---- MODULE Spec2Model ----
(***************************************************************************)
(* fov.js: tile-based field of vision by recursive shadowcasting.          *)
(*                                                                         *)
(* The scanner fov_octant and the three drivers (circle, beam, beam2) are  *)
(* translated from src/fov.js.  A top-level call is one action: it runs    *)
(* the driver to completion and leaves, in the state, the trace of what    *)
(* the call did: every invocation of settings.apply (applied), every       *)
(* invocation of fov_octant (invoked) and every column height h computed   *)
(* (heights).  history keeps the tiles of the calls made before, so that   *)
(* calls on the same settings and map can be compared.                     *)
(*                                                                         *)
(* Numbers.  Slopes are JavaScript doubles in the source.  Here they are   *)
(* exact rationals [n, d] with d > 0.  Every slope the scanner derives is  *)
(* (2*dy - 1) / (2*dx +- 1), and the drivers' inputs below are chosen with *)
(* denominators 1, 2, 3 and 5, so that 0.5 + dx*slope is never within      *)
(* rounding error of an integer unless it is exactly one in the doubles    *)
(* too; parseInt then truncates the same value in both.                    *)
(***************************************************************************)
EXTENDS Integers, Sequences, FiniteSets, TLC

(* ------------------------------ bounds --------------------------------- *)

\* Largest radius of a circle call of Spec.
MaxRadius == 4
\* Opaque tiles of Spec's maps lie at column distance 1..MaxWall.
MaxWall == 4
\* Largest number of opaque tiles on a map of Spec.
MaxOpaque == 2
\* SpecGrow: the radius grows to MaxGrow; its maps hold at most MaxOpaqueGrow
\* opaque tiles, at column distance 1..MaxWallGrow.
MaxGrow == 8
MaxWallGrow == 5
MaxOpaqueGrow == 1
\* SpecAll and SpecBeam2: the largest radius; the maps of SpecAll hold at most
\* MaxOpaqueAll opaque tiles, within MaxWallAll tiles of the source on each
\* axis.
MaxRadiusAll == 2
MaxWallAll == 1
MaxOpaqueAll == 1

(* ----------------------------- constants ------------------------------- *)

FOV_SHAPE_CIRCLE == 1
FOV_SHAPE_OCTAGON == 2

\* parseInt(Math.sqrt(v)) for v < 0: Math.sqrt gives NaN and parseInt keeps it.
NaN == -1

Shapes == {FOV_SHAPE_CIRCLE, FOV_SHAPE_OCTAGON}

(* ------------------------------ rationals ------------------------------ *)

Abs(x) == IF x < 0 THEN -x ELSE x

Rat(n, d) == IF d < 0 THEN [n |-> -n, d |-> -d] ELSE [n |-> n, d |-> d]

Zero == Rat(0, 1)
One == Rat(1, 1)

Leq(a, b) == a.n * b.d <= b.n * a.d
Less(a, b) == a.n * b.d < b.n * a.d
Sub(a, b) == Rat(a.n * b.d - b.n * a.d, a.d * b.d)

\* JavaScript's parseInt of the number num/den: its decimal string read up to
\* the point, that is truncation toward zero.
parseInt(num, den) ==
    IF num >= 0 THEN num \div den ELSE -((-num) \div den)

(* --------------------------- slope utilities --------------------------- *)

\* fov_slope(dx, dy) with dx = dx2/2 and dy = dy2/2 (the source passes
\* dx +- 0.5 and dy - 0.5).  |dx| >= FLT_EPSILON holds exactly when dx2 # 0.
fov_slope(dx2, dy2) ==
    IF dx2 # 0 THEN Rat(dy2, dx2) ELSE Zero

\* betweenf(x, a, b).  The inputs differ from a and b by 0 or by at least
\* 1/15, so x - a < FLT_EPSILON is x <= a and x - b > FLT_EPSILON is x > b.
betweenf(x, a, b) ==
    IF Leq(x, a) THEN a
    ELSE IF Less(b, x) THEN b
    ELSE x

(* ------------------------------ the trace ------------------------------ *)

\* What a call has done so far.  pass counts the driver's invocations of
\* fov_octant; via and forks describe the invocation being made: who makes it
\* and the columns whose clear-to-blocked forks enclose it.
NoTrace ==
    [applied |-> <<>>, invoked |-> <<>>, heights |-> {},
     pass |-> 0, via |-> "driver", forks |-> {}]

Invoke(io, dx, start_slope, end_slope) ==
    LET pass == IF io.via = "driver" THEN io.pass + 1 ELSE io.pass
    IN [io EXCEPT !.pass = pass,
                  !.invoked = Append(@, [pass |-> pass, via |-> io.via, dx |-> dx,
                                         start_slope |-> start_slope,
                                         end_slope |-> end_slope])]

Height(io, dx, h) == [io EXCEPT !.heights = @ \cup {[dx |-> dx, h |-> h]}]

Apply(io, p, dx, dy) ==
    [io EXCEPT !.applied = Append(@, [p |-> p, pass |-> io.pass, dx |-> dx,
                                      dy |-> dy, forks |-> io.forks])]

(* ----------------------------- fov_octant ------------------------------ *)

\* Mutant of apply_edge: the centre row is reported by every octant.
apply_edge_always(signy) == TRUE

apply_edge(signy) == signy = 1

apply_diag(rx) == rx = 0

\* parseInt(0.5 + dx*slope)
row_of(dx, slope) == parseInt(slope.d + 2 * dx * slope.n, 2 * slope.d)

\* Mutant of first_row: the start slope is ignored.
first_row_zero(dx, start_slope) == 0

\* dy0
first_row(dx, start_slope) == row_of(dx, start_slope)

\* dy1, before the diagonal and the shape clip it
last_row(dx, end_slope) == row_of(dx, end_slope)

isqrt(v) == CHOOSE k \in 0..v : k * k <= v /\ v < (k + 1) * (k + 1)

\* Mutant of height: OCTAGON's h is radius * 2 - dx.
height_slip(shape, dx, radius) ==
    IF shape = FOV_SHAPE_CIRCLE
    THEN IF radius * radius - dx * dx < 0 THEN NaN
         ELSE isqrt(radius * radius - dx * dx)
    ELSE IF shape = FOV_SHAPE_OCTAGON
    THEN radius * 2 - dx
    ELSE radius

\* The switch on settings.shape.
height(shape, dx, radius) ==
    IF shape = FOV_SHAPE_CIRCLE
    THEN IF radius * radius - dx * dx < 0 THEN NaN
         ELSE isqrt(radius * radius - dx * dx)
    ELSE IF shape = FOV_SHAPE_OCTAGON
    THEN (radius - dx) * 2
    ELSE radius

\* Math.abs(dy1) > h; a comparison with NaN is false.
exceeds(dy1, h) == h # NaN /\ Abs(dy1) > h

\* The tile at column dx, row dy of the octant (signx, signy, rx).
point(source, signx, signy, rx, dx, dy) ==
    IF rx = 0
    THEN <<source[1] + signx * dx, source[2] + signy * dy>>
    ELSE <<source[1] + signy * dy, source[2] + signx * dx>>

\* settings.opaque(data.map, x, y): the map is the set of its opaque tiles.
opaque(map, p) == p \in map

\* Mutant of opaque_applies: opaque_apply is not consulted.
opaque_applies_always(settings, signy, dy) == apply_edge(signy) \/ dy > 0

opaque_applies(settings, signy, dy) ==
    settings.opaque_apply /\ (apply_edge(signy) \/ dy > 0)

clear_applies(signy, dy) == apply_edge(signy) \/ dy > 0

\* Mutant of shadow_begins: no sub-scan is forked where a shadow begins.
shadow_never_begins(prev_blocked) == FALSE

shadow_begins(prev_blocked) == prev_blocked = 0

\* Mutant of shadow_ends: the start slope is not raised where a shadow ends.
shadow_never_ends(prev_blocked) == FALSE

shadow_ends(prev_blocked) == prev_blocked = 1

scan_continues(prev_blocked) == prev_blocked = 0

RECURSIVE fov_octant(_, _, _, _, _, _, _, _, _)
RECURSIVE fov_octant_rows(_, _, _, _, _, _, _, _, _, _, _)

\* The for loop over the rows dy..dy1 of column dx.
fov_octant_rows(settings, data, signx, signy, rx, dx, dy, dy1, start_slope, prev_blocked, io) ==
    IF dy > dy1
    THEN [start_slope |-> start_slope, prev_blocked |-> prev_blocked, io |-> io]
    ELSE
      LET p == point(data.source, signx, signy, rx, dx, dy) IN
      IF opaque(data.map, p)
      THEN
        LET io1 == IF opaque_applies(settings, signy, dy)
                   THEN Apply(io, p, dx, dy) ELSE io
            end_slope_next == fov_slope(2 * dx + 1, 2 * dy - 1)
            io2 == IF shadow_begins(prev_blocked)
                   THEN [fov_octant(settings, data, signx, signy, rx, dx + 1,
                                    start_slope, end_slope_next,
                                    [io1 EXCEPT !.via = "fork",
                                                !.forks = @ \cup {dx}])
                         EXCEPT !.forks = io1.forks]
                   ELSE io1
        IN fov_octant_rows(settings, data, signx, signy, rx, dx, dy + 1, dy1,
                           start_slope, 1, io2)
      ELSE
        LET io1 == IF clear_applies(signy, dy)
                   THEN Apply(io, p, dx, dy) ELSE io
            start_slope1 == IF shadow_ends(prev_blocked)
                            THEN fov_slope(2 * dx - 1, 2 * dy - 1)
                            ELSE start_slope
        IN fov_octant_rows(settings, data, signx, signy, rx, dx, dy + 1, dy1,
                           start_slope1, 0, io1)

fov_octant(settings, data, signx, signy, rx, dx0, start_slope, end_slope, io) ==
    LET io1 == Invoke(io, dx0, start_slope, end_slope)
        dx == IF dx0 = 0 THEN 1 ELSE dx0
    IN
    IF dx0 # 0 /\ Abs(dx0) > data.radius
    THEN io1
    ELSE
      LET dy0 == first_row(dx, start_slope)
          dy1a == last_row(dx, end_slope)
          dy1b == IF ~apply_diag(rx) /\ dy1a = dx THEN dy1a - 1 ELSE dy1a
          h == height(settings.shape, dx, data.radius)
          io2 == Height(io1, dx, h)
      IN
      IF exceeds(dy1b, h) /\ h = 0
      THEN io2
      ELSE
        LET dy1 == IF exceeds(dy1b, h) THEN h ELSE dy1b
            r == fov_octant_rows(settings, data, signx, signy, rx, dx, dy0, dy1,
                                 start_slope, -1, io2)
        IN IF scan_continues(r.prev_blocked)
           THEN fov_octant(settings, data, signx, signy, rx, dx + 1,
                           r.start_slope, end_slope,
                           [r.io EXCEPT !.via = "cont"])
           ELSE r.io

\* One invocation of fov_octant by a driver.
scan(settings, data, o, dx, start_slope, end_slope, io) ==
    fov_octant(settings, data, o[1], o[2], o[3], dx, start_slope, end_slope,
               [io EXCEPT !.via = "driver", !.forks = {}])

(* ------------------------------- circle -------------------------------- *)

ppn == <<1, 1, 0>>
ppy == <<1, 1, 1>>
pmn == <<1, -1, 0>>
pmy == <<1, -1, 1>>
mpn == <<-1, 1, 0>>
mpy == <<-1, 1, 1>>
mmn == <<-1, -1, 0>>
mmy == <<-1, -1, 1>>

CircleOctants == <<ppn, ppy, pmn, pmy, mpn, mpy, mmn, mmy>>

\* One invocation by a driver: the octant o and its slope interval.
Scan(o, start_slope, end_slope) ==
    [o |-> o, start_slope |-> start_slope, end_slope |-> end_slope]

RECURSIVE scan_each(_, _, _, _)
\* The driver's invocations of fov_octant, in order, each from column 1.
\* io.pass invocations have been made; the next is calls[io.pass + 1].
scan_each(settings, data, calls, io) ==
    IF io.pass >= Len(calls) THEN io
    ELSE LET c == calls[io.pass + 1]
         IN scan_each(settings, data, calls,
                      scan(settings, data, c.o, 1, c.start_slope, c.end_slope, io))

CircleScans == [i \in 1..8 |-> Scan(CircleOctants[i], Zero, One)]

_fov_circle(settings, data, io) ==
    scan_each(settings, data, CircleScans, io)

fov_circle(settings, map, source_x, source_y, radius) ==
    _fov_circle(settings,
                [map |-> map, source |-> <<source_x, source_y>>, radius |-> radius],
                NoTrace)

(* -------------------------------- beam --------------------------------- *)

\* Angles are rational multiples of pi: the angle w stands for w*pi radians.
Times(k, x) == Rat(k * x.n, x.d)
Whole(k) == Rat(k, 1)

fov_octant2(p, q, start_slope, end_slope) ==
    <<Scan(p, start_slope, end_slope), Scan(q, start_slope, end_slope)>>

\* The invocations BEAM_DIRECTION makes for the table row d, in order.
\* a - k > FLT_EPSILON is a > k for the angles used here.
BEAM_DIRECTION(direction, a, d, p1, p2, p3, p4, p5, p6, p7, p8) ==
    IF direction = d
    THEN fov_octant2(p1, p2, Zero, betweenf(a, Zero, One))
         \o (IF Less(Whole(1), a)
             THEN fov_octant2(p3, p4, betweenf(Sub(Whole(2), a), Zero, One), One)
             ELSE <<>>)
         \o (IF Less(Whole(2), a)
             THEN fov_octant2(p5, p6, Zero, betweenf(Sub(a, Whole(2)), Zero, One))
             ELSE <<>>)
         \o (IF Less(Whole(3), a)
             THEN fov_octant2(p7, p8, betweenf(Sub(Whole(4), a), Zero, One), One)
             ELSE <<>>)
    ELSE <<>>

BEAM_DIRECTION_DIAG(direction, a, d, p1, p2, p3, p4, p5, p6, p7, p8) ==
    IF direction = d
    THEN fov_octant2(p1, p2, betweenf(Sub(Whole(1), a), Zero, One), One)
         \o (IF Less(Whole(1), a)
             THEN fov_octant2(p3, p4, Zero, betweenf(Sub(a, Whole(1)), Zero, One))
             ELSE <<>>)
         \o (IF Less(Whole(2), a)
             THEN fov_octant2(p5, p6, betweenf(Sub(Whole(3), a), Zero, One), One)
             ELSE <<>>)
         \o (IF Less(Whole(3), a)
             THEN fov_octant2(p7, p8, Zero, betweenf(Sub(a, Whole(3)), Zero, One))
             ELSE <<>>)
    ELSE <<>>

\* Mutant of beam_scans: the row of 'east' holds the octants of 'north'.
beam_scans_east_as_north(direction, a) ==
    BEAM_DIRECTION(direction, a, "east", mpy, mmy, mmn, pmn, mpn, ppn, pmy, ppy)
    \o BEAM_DIRECTION(direction, a, "west", mpn, mmn, pmy, mmy, ppy, mpy, ppn, pmn)
    \o BEAM_DIRECTION(direction, a, "north", mpy, mmy, mmn, pmn, mpn, ppn, pmy, ppy)
    \o BEAM_DIRECTION(direction, a, "south", pmy, ppy, mpn, ppn, mmn, pmn, mmy, mpy)
    \o BEAM_DIRECTION_DIAG(direction, a, "northeast", pmn, mpy, mmy, ppn, mmn, ppy, mpn, pmy)
    \o BEAM_DIRECTION_DIAG(direction, a, "northwest", mmn, mmy, mpn, mpy, pmy, pmn, ppy, ppn)
    \o BEAM_DIRECTION_DIAG(direction, a, "southeast", ppn, ppy, pmy, pmn, mpn, mpy, mmn, mmy)
    \o BEAM_DIRECTION_DIAG(direction, a, "southwest", pmy, mpn, ppy, mmn, ppn, mmy, pmn, mpy)

\* The eight table rows of fov_beam; the row of the direction asked for is the
\* only one that makes invocations.
beam_scans(direction, a) ==
    BEAM_DIRECTION(direction, a, "east", ppn, pmn, ppy, mpy, pmy, mmy, mpn, mmn)
    \o BEAM_DIRECTION(direction, a, "west", mpn, mmn, pmy, mmy, ppy, mpy, ppn, pmn)
    \o BEAM_DIRECTION(direction, a, "north", mpy, mmy, mmn, pmn, mpn, ppn, pmy, ppy)
    \o BEAM_DIRECTION(direction, a, "south", pmy, ppy, mpn, ppn, mmn, pmn, mmy, mpy)
    \o BEAM_DIRECTION_DIAG(direction, a, "northeast", pmn, mpy, mmy, ppn, mmn, ppy, mpn, pmy)
    \o BEAM_DIRECTION_DIAG(direction, a, "northwest", mmn, mmy, mpn, mpy, pmy, pmn, ppy, ppn)
    \o BEAM_DIRECTION_DIAG(direction, a, "southeast", ppn, ppy, pmy, pmn, mpn, mpy, mmn, mmy)
    \o BEAM_DIRECTION_DIAG(direction, a, "southwest", pmy, mpn, ppy, mmn, ppn, mmy, pmn, mpy)

\* a = angle * 2 / Math.PI
beam_a(angle) == Times(2, angle)

fov_beam(settings, map, source_x, source_y, radius, direction, angle) ==
    LET data == [map |-> map, source |-> <<source_x, source_y>>, radius |-> radius]
    IN IF Leq(angle, Zero) THEN NoTrace
       ELSE IF Leq(Whole(2), angle) THEN _fov_circle(settings, data, NoTrace)
       ELSE scan_each(settings, data, beam_scans(direction, beam_a(angle)), NoTrace)

(* -------------------------------- beam2 -------------------------------- *)

ANGLES == <<ppn, ppy, pmy, mpn, mmn, mmy, mpy, pmn>>

\* JavaScript's x % m for an integer m > 0: the remainder has the sign of x.
js_rem(x, m) ==
    IF x.n >= 0 THEN Rat(x.n % (m * x.d), x.d) ELSE Rat(-((-x.n) % (m * x.d)), x.d)

Add(a, b) == Rat(a.n * b.d + b.n * a.d, a.d * b.d)

\* ((x * 4 / Math.PI) % 8 + 8) % 8 for the angle x (in units of pi).
octant_position(x) == js_rem(Add(js_rem(Times(4, x), 8), Whole(8)), 8)

\* Math.floor of a rational that is not negative.
floor(q) == q.n \div q.d

RECURSIVE beam2_scans(_, _, _, _, _)
\* The while loop of fov_beam2 from index i on: its invocations, in order.
beam2_scans(q1, q2, qf1, qf2, i) ==
    LET left_slope == IF i = qf1 THEN Sub(q1, Whole(i)) ELSE Zero
        right_slope == IF i = qf2 THEN Sub(q2, Whole(i)) ELSE One
        this == IF i % 2 = 1
                THEN Scan(ANGLES[i + 1], Sub(One, right_slope), Sub(One, left_slope))
                ELSE Scan(ANGLES[i + 1], left_slope, right_slope)
    IN IF i = qf2 THEN <<this>>
       ELSE <<this>> \o beam2_scans(q1, q2, qf1, qf2, (i + 1) % 8)

\* spread / 2
half(x) == Rat(x.n, 2 * x.d)

fov_beam2(settings, map, source_x, source_y, radius, angle, spread) ==
    LET data == [map |-> map, source |-> <<source_x, source_y>>, radius |-> radius]
        q1 == octant_position(Sub(angle, half(spread)))
        q2 == octant_position(Add(angle, half(spread)))
    IN IF Leq(spread, Zero) THEN NoTrace
       ELSE IF Leq(Whole(2), spread) THEN _fov_circle(settings, data, NoTrace)
       ELSE scan_each(settings, data,
                      beam2_scans(q1, q2, floor(q1), floor(q2), floor(q1)), NoTrace)

(* ------------------------------- state --------------------------------- *)

\* settings and map are the caller's; call is the top-level call made last,
\* applied, invoked and heights are its trace, and history holds the calls
\* made before it with the tiles each reported.
VARIABLES settings, map, call, applied, invoked, heights, history

vars == <<settings, map, call, applied, invoked, heights, history>>

Tiles(tr) == {tr[i].p : i \in 1..Len(tr)}

NoCall == [op |-> "none"]

\* The east octant with both its edges, out to column w: the tiles octant ppn
\* scans.
Walls(w) == {<<x, y>> \in (1..w) \X (0..w) : y <= x}

RECURSIVE SubsetsUpTo(_, _)
SubsetsUpTo(S, k) ==
    IF k = 0 THEN {{}}
    ELSE LET T == SubsetsUpTo(S, k - 1)
         IN T \cup {t \cup {x} : t \in T, x \in S}

Start(maps) ==
    /\ settings \in [shape : Shapes, opaque_apply : BOOLEAN]
    /\ map \in maps
    /\ call = NoCall
    /\ applied = <<>>
    /\ invoked = <<>>
    /\ heights = {}
    /\ history = <<>>

\* The call c returns having done io.
Done(c, io) ==
    /\ history' = IF call = NoCall THEN history
                  ELSE Append(history, [call |-> call, tiles |-> Tiles(applied)])
    /\ call' = c
    /\ applied' = io.applied
    /\ invoked' = io.invoked
    /\ heights' = io.heights
    /\ UNCHANGED <<settings, map>>

(* ---------------------- Spec: circle and beam east ---------------------- *)

\* The caller lights a circle; or it lights the beam east of half-angle pi/4
\* and then the circle of the same radius, on the same map.

Init == Start(SubsetsUpTo(Walls(MaxWall), MaxOpaque))

Circle(radius) ==
    /\ \/ call = NoCall
       \/ call.op = "beam" /\ radius = call.radius
    /\ Done([op |-> "circle", radius |-> radius],
            fov_circle(settings, map, 0, 0, radius))

BeamEast(radius) ==
    /\ call = NoCall
    /\ Done([op |-> "beam", radius |-> radius, direction |-> "east",
             angle |-> Rat(1, 4)],
            fov_beam(settings, map, 0, 0, radius, "east", Rat(1, 4)))

Next ==
    \E radius \in 0..MaxRadius :
        \/ Circle(radius)
        \/ BeamEast(radius)

Spec == Init /\ [][Next]_vars

(* ----------------- SpecGrow: circles of growing radius ----------------- *)

\* The caller lights the circle of radius 0, then 1, then 2, ... on one map.

InitGrow == Start(SubsetsUpTo(Walls(MaxWallGrow), MaxOpaqueGrow))

Grow ==
    /\ Len(history) < MaxGrow
    /\ LET radius == IF call = NoCall THEN 0 ELSE call.radius + 1
       IN Done([op |-> "circle", radius |-> radius],
               fov_circle(settings, map, 0, 0, radius))

SpecGrow == InitGrow /\ [][Grow]_vars

(* ------------------ SpecAll: one call of any driver -------------------- *)

\* The eight direction names of fov_beam and one it does not know.
Directions ==
    {"east", "west", "north", "south",
     "northeast", "northwest", "southeast", "southwest", "southest"}

\* Half-angles of fov_beam in units of pi: none, one for each of the four
\* ranges of a the direction tables tell apart, and the full turn.
BeamAngles == {Rat(0, 1), Rat(1, 4), Rat(2, 3), Rat(7, 6), Rat(11, 6), Rat(2, 1)}

\* Centre angles and spreads of fov_beam2 in units of pi.  With these no beam
\* end lies exactly on an octant boundary, where the rounding of q1 and q2 in
\* floating point would pick the octant.
Beam2Angles == {Rat(k, 20) : k \in {-13, 2, 13, 22}}

Beam2Spreads == {Rat(k, 10) : k \in {1, 4, 6, 9, 11, 14, 16, 19}}

Around(w) == ((-w..w) \X (-w..w)) \ {<<0, 0>>}

InitAll == Start(SubsetsUpTo(Around(MaxWallAll), MaxOpaqueAll))

LightCircle(radius) ==
    /\ call = NoCall
    /\ Done([op |-> "circle", radius |-> radius],
            fov_circle(settings, map, 0, 0, radius))

LightBeam(radius, direction, angle) ==
    /\ call = NoCall
    /\ Done([op |-> "beam", radius |-> radius, direction |-> direction,
             angle |-> angle],
            fov_beam(settings, map, 0, 0, radius, direction, angle))

LightBeam2(radius, angle, spread) ==
    /\ call = NoCall
    /\ Done([op |-> "beam2", radius |-> radius, angle |-> angle,
             spread |-> spread],
            fov_beam2(settings, map, 0, 0, radius, angle, spread))

NextAll ==
    \E radius \in 0..MaxRadiusAll :
        \/ LightCircle(radius)
        \/ \E direction \in Directions, angle \in BeamAngles :
               LightBeam(radius, direction, angle)
        \/ \E angle \in Beam2Angles,
              spread \in Beam2Spreads \cup {Rat(0, 1), Rat(2, 1)} :
               LightBeam2(radius, angle, spread)

SpecAll == InitAll /\ [][NextAll]_vars

(* --------------- SpecBeam2: beam2 with a widening spread --------------- *)

\* On the all-transparent map the caller lights beam2 again and again at one
\* radius and centre angle, each time with a wider spread in (0, 2 pi).

InitBeam2 == Start({{}})

Widen(radius, angle, spread) ==
    /\ \/ call = NoCall
       \/ /\ call # NoCall
          /\ radius = call.radius
          /\ angle = call.angle
          /\ Less(call.spread, spread)
    /\ Done([op |-> "beam2", radius |-> radius, angle |-> angle,
             spread |-> spread],
            fov_beam2(settings, map, 0, 0, radius, angle, spread))

NextBeam2 ==
    \E radius \in 0..MaxRadiusAll, angle \in Beam2Angles, spread \in Beam2Spreads :
        Widen(radius, angle, spread)

SpecBeam2 == InitBeam2 /\ [][NextBeam2]_vars

(* ------------------- claims under Spec and SpecGrow -------------------- *)

Circles == {k \in 1..Len(history) : history[k].call.op = "circle"}

AfterBeamEast ==
    /\ call.op = "circle"
    /\ Len(history) = 1
    /\ history[1].call.op = "beam"

InEastCone(p) == p[1] >= 1 /\ Abs(p[2]) <= p[1]

Forked == \E k \in 1..Len(invoked) : invoked[k].via = "fork"

\* C2: during one circle call apply is invoked at most once for any tile,
\* whatever the map, the shape and opaque_apply; so an opaque tile reported
\* with opaque_apply true is reported exactly once.
C2_NoTileTwice ==
    call.op = "circle" =>
        \A i, j \in 1..Len(applied) : applied[i].p = applied[j].p => i = j

\* A circle with opaque_apply true that reported an opaque tile of the east
\* axis, which octants ppn and pmn both scan, and forked at a shadow.
C2_Witness ==
    /\ call.op = "circle"
    /\ settings.opaque_apply
    /\ Forked
    /\ \E i \in 1..Len(applied) : applied[i].p \in map /\ applied[i].p[2] = 0

Disc(radius) ==
    {p \in (-radius..radius) \X (-radius..radius) :
        p[1] * p[1] + p[2] * p[2] <= radius * radius /\ p # <<0, 0>>}

\* C3: on an all-transparent map, circle with shape CIRCLE and source (0,0)
\* reports exactly the tiles of the disc x*x + y*y <= R*R other than (0,0).
C3_ExactDisc ==
    (call.op = "circle" /\ map = {} /\ settings.shape = FOV_SHAPE_CIRCLE)
        => Tiles(applied) = Disc(call.radius)

\* C4 (under SpecGrow): every tile a circle of radius R reports is reported
\* by the circle of any larger radius on the same settings, map and source.
C4_RadiusMonotone ==
    call.op = "circle" =>
        \A k \in Circles :
            history[k].call.radius < call.radius
                => history[k].tiles \subseteq Tiles(applied)

\* The circle of radius 8 scans rows 0..5 of column 5 and finds the opaque
\* tile (5,5) there; the circle of radius 7 before it, whose column 5 the
\* shape cut to rows 0..4, went on to column 6 without meeting it.
C4_Witness ==
    /\ call.op = "circle"
    /\ call.radius = 8
    /\ settings.shape = FOV_SHAPE_CIRCLE
    /\ map = {<<5, 5>>}
    /\ Forked
    /\ <<6, 3>> \in history[Len(history)].tiles

OctagonHeight(e) ==
    IF settings.shape = FOV_SHAPE_OCTAGON THEN e.h
    ELSE height(FOV_SHAPE_OCTAGON, e.dx, call.radius)

CircleHeight(e) ==
    IF settings.shape = FOV_SHAPE_CIRCLE THEN e.h
    ELSE height(FOV_SHAPE_CIRCLE, e.dx, call.radius)

\* C5 as stated: for every column dx of 1..radius the scanner computed a
\* height for, OCTAGON's h is at most CIRCLE's h.
C5_OctagonBelowCircle ==
    \A e \in heights :
        (1 <= e.dx /\ e.dx <= call.radius) => OctagonHeight(e) <= CircleHeight(e)

\* C5 amended: OCTAGON's h is at most CIRCLE's h exactly in the columns with
\* 5*dx >= 3*radius; in the columns nearer the source it is larger.
C5_OctagonBelowCircleFar ==
    \A e \in heights :
        (1 <= e.dx /\ e.dx <= call.radius) =>
            (OctagonHeight(e) <= CircleHeight(e) <=> 5 * e.dx >= 3 * call.radius)

\* An OCTAGON scan that computed a positive height in a far column and a
\* height in a near one.
C5_Witness ==
    /\ settings.shape = FOV_SHAPE_OCTAGON
    /\ \E e \in heights : 5 * e.dx >= 3 * call.radius /\ e.h > 0
    /\ \E e \in heights : 1 <= e.dx /\ 5 * e.dx < 3 * call.radius

\* C6: with (k,0), k >= 1, the only opaque tile, circle from (0,0) never
\* reports a tile (x,0) with x > k.
C6_BehindWallHidden ==
    \A k \in 1..MaxWall :
        (call.op = "circle" /\ map = {<<k, 0>>}) =>
            \A i \in 1..Len(applied) :
                ~(applied[i].p[2] = 0 /\ applied[i].p[1] > k)

\* The wall is at (1,0), it was reported itself, and the circle reported a
\* tile above the axis in a column behind it.
C6_Witness ==
    /\ call.op = "circle"
    /\ map = {<<1, 0>>}
    /\ <<1, 0>> \in Tiles(applied)
    /\ \E i \in 1..Len(applied) : applied[i].p[1] >= 2 /\ applied[i].p[2] > 0

\* C7 as stated: the tiles beam('east', pi/4) reports are a strict subset of
\* those circle reports for the same settings, map and radius, and lie within
\* pi/4 of due east.
C7_BeamStrictSubset ==
    AfterBeamEast =>
        /\ history[1].tiles \subseteq Tiles(applied)
        /\ history[1].tiles # Tiles(applied)
        /\ \A p \in history[1].tiles : InEastCone(p)

\* C7 amended: a subset, within the cone; strict when the radius is at least
\* 1 and the tile (0,1) is transparent (with radius 0 both sets are empty).
C7_BeamSubset ==
    AfterBeamEast =>
        /\ history[1].tiles \subseteq Tiles(applied)
        /\ \A p \in history[1].tiles : InEastCone(p)
        /\ (call.radius >= 1 /\ <<0, 1>> \notin map)
               => history[1].tiles # Tiles(applied)

\* The beam forked at a shadow and reported tiles on both sides of the axis.
C7_Witness ==
    /\ AfterBeamEast
    /\ map # {}
    /\ \E p \in history[1].tiles : p[2] > 0 /\ p[1] >= 3
    /\ \E p \in history[1].tiles : p[2] < 0
    /\ \E p \in Tiles(applied) : ~InEastCone(p)

InOrder(a, b) == a.dx < b.dx \/ (a.dx = b.dx /\ a.dy < b.dy)

\* C8 as stated: within one octant pass the apply invocations occur in
\* increasing distance-then-row order.
C8_DistanceThenRow ==
    \A i, j \in 1..Len(applied) :
        (i < j /\ applied[i].pass = applied[j].pass)
            => InOrder(applied[i], applied[j])

\* C8 amended: within one octant pass an apply comes before an apply that is
\* not later in distance-then-row order only when it is farther from the
\* source and was made inside a sub-scan forked, at a clear-to-blocked
\* transition, from a column no farther than the later apply's.
C8_OrderUpToForks ==
    \A i, j \in 1..Len(applied) :
        (i < j /\ applied[i].pass = applied[j].pass) =>
            \/ InOrder(applied[i], applied[j])
            \/ /\ applied[i].dx > applied[j].dx
               /\ \E f \in applied[i].forks : f <= applied[j].dx

\* A pass in which an apply of a forked sub-scan precedes an apply nearer
\* the source.
C8_Witness ==
    \E i, j \in 1..Len(applied) :
        /\ i < j
        /\ applied[i].pass = applied[j].pass
        /\ applied[i].dx > applied[j].dx
        /\ applied[i].forks # {}

(* ------------------------ claims under SpecAll ------------------------- *)

\* C1: with opaque_apply false, no circle, beam or beam2 call invokes apply on
\* a tile for which the opaque predicate is true, whatever the map.
C1_NoApplyOnOpaque ==
    ~settings.opaque_apply =>
        \A i \in 1..Len(applied) : ~opaque(map, applied[i].p)

\* A beam2 call with opaque_apply false scanned column 1 of the east octants
\* across the opaque tile (1,0): it reported the tiles on both sides of it.
C1_Witness ==
    /\ call.op = "beam2"
    /\ ~settings.opaque_apply
    /\ map = {<<1, 0>>}
    /\ <<1, 1>> \in Tiles(applied)
    /\ <<1, -1>> \in Tiles(applied)

\* C9: every invocation of the octant scanner, by a driver or by the scanner
\* itself, receives slopes with 0 <= start_slope <= end_slope <= 1.
C9_SlopeInterval ==
    \A k \in 1..Len(invoked) :
        /\ Leq(Zero, invoked[k].start_slope)
        /\ Leq(invoked[k].start_slope, invoked[k].end_slope)
        /\ Leq(invoked[k].end_slope, One)

(* ----------------------- claims under SpecBeam2 ------------------------ *)

\* C10: on the all-transparent map, at one source, radius and centre angle,
\* every tile beam2 reports with a spread s is reported with any wider spread
\* s' (0 < s < s' < 2 pi), spreads wider than seven octants included.
C10_SpreadMonotone ==
    call.op = "beam2" =>
        \A k \in 1..Len(history) : history[k].tiles \subseteq Tiles(applied)

====
